---- MODULE Spec2Model ----
(***************************************************************************)
(* Model of scraper.py: the pipeline that reads polling-station rows from  *)
(* a workbook, resolves each row's settlement name to a settlement code    *)
(* (get_settlement_code, backed by SETTLEMENT_CODE_CACHE), fetches one     *)
(* polygon per station (fetch_polling_station_geometries) and prints the   *)
(* FeatureCollection (run).                                                *)
(*                                                                         *)
(* The program is a single chain of coroutines on one event loop, so the   *)
(* model has one control position, pc.  A step of the model is the code    *)
(* executed between two suspension points (a request being sent, its       *)
(* response head arriving, its body being read).                           *)
(*                                                                         *)
(* Strings that the code inspects character by character (settlement       *)
(* names, display names) are sequences of one-character strings.  Python's *)
(* None is the empty tuple and a present value v is <<v>>.                 *)
(***************************************************************************)
EXTENDS Integers, Sequences, FiniteSets, TLC

VARIABLES
    workbook,               \* the sheets read so far, each <<header, row, ...>>
    pc,                     \* control position of the coroutine chain
    row,                    \* polling_stations: the row being processed
    SETTLEMENT_CODE_CACHE,  \* module-level dict: settlement name -> code
    response,               \* the response whose "async with" block is open
    outstanding,            \* requests sent and not yet released, each
                            \* <<kind, number of the request of that kind>>
    polling_station,        \* the record polling_stations has yielded last
    features,               \* run: the list comprehension's features so far
    printed,                \* what run has printed to standard output
    error,                  \* the exception that ended the run
    search_requests,        \* log: keyword of every search request sent
    geometry_requests,      \* log: parameters of every geometry request sent
    yielded                 \* log: every record polling_stations yielded

vars == <<workbook, pc, row, SETTLEMENT_CODE_CACHE, response, outstanding,
          polling_station, features, printed, error, search_requests,
          geometry_requests, yielded>>

----------------------------------------------------------------------------
(* Bounds of the model. *)

\* Data rows (header rows not counted) in the whole workbook.
MaxRows == 3
\* Sheets in the workbook.
MaxSheets == 2

----------------------------------------------------------------------------
(* Values. *)

None == <<>>
Some(v) == <<v>>

\* The settlement names of the workbook.  The second one holds a character
\* that is a metacharacter of Python's re syntax.
NameSz == <<"S", "z">>
NameSDot == <<"S", ".">>
SettlementNames == {NameSz, NameSDot}

HeaderRow == [first |-> Some("Ssz"), county |-> Some("Megye"),
              settlement |-> Some(<<"T">>), station |-> None]

\* The rows a sheet can hold.  first is the cell at index 0, county,
\* settlement and station the cells at WorksheetColumns.COUNTY, SETTLEMENT
\* and STATION_NO.  The counter columns are copied like county and are left
\* out.
Row(first, settlement, station) ==
    [first |-> first, county |-> Some("Pest"), settlement |-> settlement,
     station |-> station]

Rows ==
    {Row(None, Some(NameSz), Some(1)),
     Row(Some("x"), Some(NameSz), Some(1)),
     Row(Some("x"), Some(NameSDot), Some(12)),
     Row(Some("x"), Some(NameSz), None),
     Row(Some("x"), None, Some(1))}

----------------------------------------------------------------------------
(* polling_stations: the conversions of one row. *)

RECURSIVE DecStr(_)
\* str(n) of a natural number: its decimal digits, no leading zero.
DecStr(n) == IF n < 10 THEN <<n>> ELSE DecStr(n \div 10) \o <<n % 10>>

\* station_no = str(int(row[WorksheetColumns.STATION_NO])).  int(None) raises
\* TypeError, which the result None stands for.
StationNo(r) == IF r.station = None THEN None ELSE Some(DecStr(r.station[1]))

\* county_code = f"{county_index + 1:02}", sheet being county_index + 1.
CountyCode(sheet) == IF sheet < 10 THEN <<0, sheet>> ELSE DecStr(sheet)

\* IsSkipped testing the station cell in place of the first cell.
IsSkippedByStation(r) == r.station = None

\* "if row[0] is None: continue"
IsSkipped(r) == r.first = None

\* properties = {field.name: row[field.value] for field in WorksheetColumns}
Properties(r) == [COUNTY |-> r.county, SETTLEMENT |-> r.settlement,
                  STATION_NO |-> r.station]

\* The dict polling_stations yields.
PollingStation(r, sheet, code) ==
    [api_params |-> [STATION_NO |-> StationNo(r)[1],
                     SETTLEMENT_CODE |-> code,
                     COUNTY_CODE |-> CountyCode(sheet)],
     properties |-> Properties(r)]

----------------------------------------------------------------------------
(* get_settlement_code. *)

EmptyCache == [n \in {} |-> "c0"]

\* CacheLookup that never finds a key.
CacheLookupAlwaysMiss(cache, cell) == None

\* SETTLEMENT_CODE_CACHE[settlement_name]: Some(code), or None for KeyError.
\* The key is the cell's value, and None is never a key of the dict.
CacheLookup(cache, cell) ==
    IF cell # None /\ cell[1] \in DOMAIN cache
    THEN Some(cache[cell[1]]) ELSE None

\* CacheStore into a fresh dict: the earlier entries are lost.
CacheStoreFresh(cache, name, code) == [n \in {name} |-> code]

\* SETTLEMENT_CODE_CACHE[settlement_name] = settlement_code
CacheStore(cache, name, code) ==
    [n \in DOMAIN cache \cup {name} |-> IF n = name THEN code ELSE cache[n]]

\* params = {**API_SEARCH_PARAMS, keywords: settlement_name}
SearchParams(name) ==
    [p_p_resource_id |-> "resourceIdGetTelepulesOrMegye", keywords |-> name]

\* One pattern character of re against one character: the name is put into
\* the pattern unescaped, so "." is re's wildcard (any character but a
\* newline, which the model's alphabet does not hold).
CharMatches(p, ch) == p = "." \/ p = ch

\* re.compile(f"^{settlement_name}(?: .+)?$").match(display), for names of
\* letters, spaces and ".".
RegexMatch(name, display) ==
    /\ Len(display) >= Len(name)
    /\ \A i \in 1..Len(name) : CharMatches(name[i], display[i])
    /\ \/ Len(display) = Len(name)
       \/ Len(display) >= Len(name) + 2 /\ display[Len(name) + 1] = " "

Found(code) == [ok |-> TRUE, code |-> code, cause |-> "none"]
Raised(cause) == [ok |-> FALSE, code |-> "none", cause |-> cause]

RECURSIVE SelectCode(_, _)
\* next(match["telepulesKod"] for match in candidates
\*      if re...match(match["telepulesNeve"]))
\* A candidate without the key read raises KeyError; an exhausted generator
\* raises StopIteration.
SelectCode(name, candidates) ==
    IF candidates = <<>> THEN Raised("StopIteration")
    ELSE LET match == Head(candidates) IN
         IF match.telepulesNeve = None THEN Raised("KeyError")
         ELSE IF RegexMatch(name, match.telepulesNeve[1])
              THEN IF match.telepulesKod = None THEN Raised("KeyError")
                   ELSE Found(match.telepulesKod[1])
              ELSE SelectCode(name, Tail(candidates))

\* The try block of get_settlement_code on a response: response.json() and
\* the selection.
ReadSearchResponse(name, resp) ==
    IF resp.body.kind = "malformed" THEN Raised("JSONDecodeError")
    ELSE IF resp.body.kind = "truncated" THEN Raised("ClientPayloadError")
    ELSE SelectCode(name, resp.body.candidates)

\* "except Exception as e: raise Exception(f'...{settlement_name}: {str(e)},
\* {params}')"
ResolutionError(name, cause) ==
    [kind |-> "ResolutionError", settlement |-> Some(name),
     cause |-> cause, params |-> Some(SearchParams(name))]

\* An exception that leaves the program as it was raised.
RawError(kind) ==
    [kind |-> kind, settlement |-> None, cause |-> kind, params |-> None]

Candidate(display, code) ==
    [telepulesNeve |-> Some(display), telepulesKod |-> Some(code)]

JsonList(candidates) ==
    [status |-> 200, body |-> [kind |-> "json", candidates |-> candidates]]

\* What the search collaborator can answer.
SearchResponses ==
    {JsonList(<<>>),
     JsonList(<<Candidate(<<"S", "z", "x">>, "c1"),
                Candidate(<<"x", " ", "S", "z">>, "c2")>>),
     JsonList(<<Candidate(NameSz, "c1")>>),
     JsonList(<<Candidate(NameSz, "c2")>>),
     JsonList(<<Candidate(<<"S", "z", " ", "x">>, "c1"),
                Candidate(NameSz, "c2")>>),
     JsonList(<<Candidate(<<"S", "z", "x">>, "c1"),
                Candidate(<<"S", "z", " ", "x">>, "c2")>>),
     JsonList(<<Candidate(NameSz, "c1"), Candidate(NameSDot, "c2")>>),
     JsonList(<<Candidate(<<"S", ".", " ", "x">>, "c2")>>),
     JsonList(<<[telepulesNeve |-> None, telepulesKod |-> Some("c1")],
                Candidate(NameSz, "c2")>>),
     [status |-> 200, body |-> [kind |-> "malformed", candidates |-> <<>>]],
     [status |-> 200, body |-> [kind |-> "truncated", candidates |-> <<>>]],
     [status |-> 500, body |-> [kind |-> "malformed", candidates |-> <<>>]]}

----------------------------------------------------------------------------
(* fetch_polling_station_geometries. *)

\* params = {**API_GET_MAP_DATA_PARAMS, **polling_station["api_params"]}
GeometryParams(ps) ==
    [p_p_resource_id |-> "resourceIdGetElectionMapData",
     STATION_NO |-> ps.api_params.STATION_NO,
     SETTLEMENT_CODE |-> ps.api_params.SETTLEMENT_CODE,
     COUNTY_CODE |-> ps.api_params.COUNTY_CODE]

\* shapely closes the ring: the first vertex is repeated at the end.
CloseRing(coords) ==
    IF coords[1] = coords[Len(coords)] THEN coords
    ELSE Append(coords, coords[1])

\* mapping(Polygon((point["lng"], point["lat"]) for point in paths)): the set
\* of results, None standing for a raised exception.  Fewer than three
\* vertices raise ValueError.  For no vertex at all the outcome depends on
\* the shapely release installed: an exception, or the mapping of an empty
\* polygon.
PolygonMapping(paths) ==
    IF Len(paths) = 0
    THEN {None, Some([type |-> "Polygon", coordinates |-> <<>>])}
    ELSE IF Len(paths) < 3 THEN {None}
    ELSE {Some([type |-> "Polygon",
                coordinates |->
                    CloseRing([i \in 1..Len(paths) |->
                                  <<paths[i].lng, paths[i].lat>>])])}

\* The try block of fetch_polling_station_geometries: response.json(),
\* data["polygon"]["paths"], json.loads, the polygon; any exception gives
\* geometry = None.  The response's status is not looked at.
ParseGeometry(resp) ==
    IF resp.body.kind # "json" THEN {None}
    ELSE IF ~resp.body.has_polygon THEN {None}
    ELSE IF ~resp.body.paths_json THEN {None}
    ELSE PolygonMapping(resp.body.paths)

\* Feature(geometry=geometry, properties=polling_station["properties"])
Feature(geometry, properties) ==
    [type |-> "Feature", geometry |-> geometry, properties |-> properties]

\* FeatureCollection(features=[...])
FeatureCollection(fs) == [type |-> "FeatureCollection", features |-> fs]

Point(lat, lng) == [lat |-> lat, lng |-> lng]

GeometryBody(kind, has_polygon, paths_json, paths) ==
    [kind |-> kind, has_polygon |-> has_polygon, paths_json |-> paths_json,
     paths |-> paths]

Triangle == <<Point(46, 20), Point(47, 21), Point(46, 22)>>

\* What the geometry collaborator can answer.
GeometryResponses ==
    {[status |-> 200, body |-> GeometryBody("json", TRUE, TRUE, Triangle)],
     [status |-> 200, body |-> GeometryBody("json", TRUE, TRUE, <<>>)],
     [status |-> 200,
      body |-> GeometryBody("json", TRUE, TRUE, <<Point(46, 20)>>)],
     [status |-> 200, body |-> GeometryBody("json", TRUE, FALSE, <<>>)],
     [status |-> 200, body |-> GeometryBody("json", FALSE, FALSE, <<>>)],
     [status |-> 200, body |-> GeometryBody("malformed", FALSE, FALSE, <<>>)],
     [status |-> 200, body |-> GeometryBody("truncated", FALSE, FALSE, <<>>)],
     [status |-> 500, body |-> GeometryBody("malformed", FALSE, FALSE, <<>>)],
     [status |-> 500, body |-> GeometryBody("json", TRUE, TRUE, Triangle)]}

\* Release that leaves the request open.
ReleaseNothing(open, request) == open

\* Leaving the "async with session.get(...) as response" block.
Release(open, request) == open \ {request}

----------------------------------------------------------------------------
(* The state machine. *)

\* Number of data rows read so far, over all sheets.
RowsRead == LET RECURSIVE Sum(_)
                Sum(i) == IF i = 0 THEN 0
                          ELSE (Len(workbook[i]) - 1) + Sum(i - 1)
            IN Sum(Len(workbook))

\* The workbook with one more row read from the current (last) sheet.
WithRow(wb, r) == [wb EXCEPT ![Len(wb)] = Append(@, r)]

Init ==
    /\ workbook = <<>>
    /\ pc = "sheets"
    /\ row = None
    /\ SETTLEMENT_CODE_CACHE = EmptyCache
    /\ response = None
    /\ outstanding = {}
    /\ polling_station = None
    /\ features = <<>>
    /\ printed = None
    /\ error = None
    /\ search_requests = <<>>
    /\ geometry_requests = <<>>
    /\ yielded = <<>>

\* An exception leaves every generator and run: nothing is printed.
Abort(e) ==
    /\ error' = Some(e)
    /\ pc' = "aborted"
    /\ outstanding' = {}
    /\ response' = None

\* polling_stations yields the record of the current row.
YieldRecord(r, code) ==
    LET ps == PollingStation(r, Len(workbook), code) IN
    /\ polling_station' = Some(ps)
    /\ yielded' = Append(yielded, ps)
    /\ pc' = "record"

\* "for county_index, worksheet in enumerate(workbook.worksheets)": the next
\* sheet; "_, *rows = worksheet.values" drops its header row.
OpenSheet ==
    /\ pc = "sheets"
    /\ Len(workbook) < MaxSheets
    /\ workbook' = Append(workbook, <<HeaderRow>>)
    /\ pc' = "rows"
    /\ UNCHANGED <<row, SETTLEMENT_CODE_CACHE, response, outstanding,
                   polling_station, features, printed, error,
                   search_requests, geometry_requests, yielded>>

\* "for row in rows" is exhausted: back to the loop over the sheets.
EndOfSheet ==
    /\ pc = "rows"
    /\ pc' = "sheets"
    /\ UNCHANGED <<workbook, row, SETTLEMENT_CODE_CACHE, response,
                   outstanding, polling_station, features, printed, error,
                   search_requests, geometry_requests, yielded>>

\* "if row[0] is None: continue"
SkipRow(r) ==
    /\ pc = "rows"
    /\ RowsRead < MaxRows
    /\ IsSkipped(r)
    /\ workbook' = WithRow(workbook, r)
    /\ UNCHANGED <<pc, row, SETTLEMENT_CODE_CACHE, response, outstanding,
                   polling_station, features, printed, error,
                   search_requests, geometry_requests, yielded>>

\* A retained row whose station cell is None: int(None) raises TypeError.
RowStationError(r) ==
    /\ pc = "rows"
    /\ RowsRead < MaxRows
    /\ ~IsSkipped(r)
    /\ StationNo(r) = None
    /\ workbook' = WithRow(workbook, r)
    /\ row' = Some(r)
    /\ Abort(RawError("TypeError"))
    /\ UNCHANGED <<SETTLEMENT_CODE_CACHE, polling_station, features, printed,
                   search_requests, geometry_requests, yielded>>

\* A retained row whose settlement is in the cache: get_settlement_code
\* returns at once and the record is yielded.
RowCacheHit(r) ==
    /\ pc = "rows"
    /\ RowsRead < MaxRows
    /\ ~IsSkipped(r)
    /\ StationNo(r) # None
    /\ CacheLookup(SETTLEMENT_CODE_CACHE, r.settlement) # None
    /\ workbook' = WithRow(workbook, r)
    /\ row' = Some(r)
    /\ YieldRecord(r, CacheLookup(SETTLEMENT_CODE_CACHE, r.settlement)[1])
    /\ UNCHANGED <<SETTLEMENT_CODE_CACHE, response, outstanding, features,
                   printed, error, search_requests, geometry_requests>>

\* A retained row whose settlement is not in the cache: the search request
\* is sent.
RowCacheMiss(r) ==
    /\ pc = "rows"
    /\ RowsRead < MaxRows
    /\ ~IsSkipped(r)
    /\ StationNo(r) # None
    /\ r.settlement # None
    /\ CacheLookup(SETTLEMENT_CODE_CACHE, r.settlement) = None
    /\ workbook' = WithRow(workbook, r)
    /\ row' = Some(r)
    /\ search_requests' = Append(search_requests, r.settlement[1])
    /\ outstanding' =
           outstanding \cup {<<"search", Len(search_requests) + 1>>}
    /\ pc' = "search_sent"
    /\ UNCHANGED <<SETTLEMENT_CODE_CACHE, response, polling_station,
                   features, printed, error, geometry_requests, yielded>>

\* A retained row whose settlement cell is None: the cache has no such key,
\* and session.get refuses the parameter value None with TypeError, outside
\* the try block.
RowSettlementError(r) ==
    /\ pc = "rows"
    /\ RowsRead < MaxRows
    /\ ~IsSkipped(r)
    /\ StationNo(r) # None
    /\ r.settlement = None
    /\ CacheLookup(SETTLEMENT_CODE_CACHE, r.settlement) = None
    /\ workbook' = WithRow(workbook, r)
    /\ row' = Some(r)
    /\ Abort(RawError("TypeError"))
    /\ UNCHANGED <<SETTLEMENT_CODE_CACHE, polling_station, features, printed,
                   search_requests, geometry_requests, yielded>>

\* "async with session.get(API_BASE_URL, params=params)" of
\* get_settlement_code raises (no connection, timeout): the statement is
\* outside the try block, the exception is not wrapped.
SearchRequestFails ==
    /\ pc = "search_sent"
    /\ Abort(RawError("ClientError"))
    /\ UNCHANGED <<workbook, row, SETTLEMENT_CODE_CACHE, polling_station,
                   features, printed, search_requests, geometry_requests,
                   yielded>>

\* The head of the search response arrives: the "async with" block is
\* entered.
SearchResponseArrives(resp) ==
    /\ pc = "search_sent"
    /\ response' = Some(resp)
    /\ pc' = "search_body"
    /\ UNCHANGED <<workbook, row, SETTLEMENT_CODE_CACHE, outstanding,
                   polling_station, features, printed, error,
                   search_requests, geometry_requests, yielded>>

\* The try block finds a code: it is cached and returned, the blocks are
\* left and polling_stations yields the record.
ResolveSucceeds ==
    /\ pc = "search_body"
    /\ LET name == row[1].settlement[1]
           got == ReadSearchResponse(name, response[1])
       IN /\ got.ok
          /\ SETTLEMENT_CODE_CACHE' =
                 CacheStore(SETTLEMENT_CODE_CACHE, name, got.code)
          /\ YieldRecord(row[1], got.code)
    /\ response' = None
    /\ outstanding' =
           Release(outstanding, <<"search", Len(search_requests)>>)
    /\ UNCHANGED <<workbook, row, features, printed, error, search_requests,
                   geometry_requests>>

\* The try block raises: the except clause raises the wrapping Exception.
ResolveFails ==
    /\ pc = "search_body"
    /\ LET name == row[1].settlement[1]
           got == ReadSearchResponse(name, response[1])
       IN /\ ~got.ok
          /\ Abort(ResolutionError(name, got.cause))
    /\ UNCHANGED <<workbook, row, SETTLEMENT_CODE_CACHE, polling_station,
                   features, printed, search_requests, geometry_requests,
                   yielded>>

\* fetch_polling_station_geometries takes the record and sends its request.
GeometryRequest ==
    /\ pc = "record"
    /\ geometry_requests' =
           Append(geometry_requests, GeometryParams(polling_station[1]))
    /\ outstanding' =
           outstanding \cup {<<"geometry", Len(geometry_requests) + 1>>}
    /\ pc' = "geom_sent"
    /\ UNCHANGED <<workbook, row, SETTLEMENT_CODE_CACHE, response,
                   polling_station, features, printed, error,
                   search_requests, yielded>>

\* "async with session.get(API_BASE_URL, params=params)" of
\* fetch_polling_station_geometries raises: the statement is outside the try
\* block, and the exception leaves the generator and run.
GeometryRequestFails ==
    /\ pc = "geom_sent"
    /\ Abort(RawError("ClientError"))
    /\ UNCHANGED <<workbook, row, SETTLEMENT_CODE_CACHE, polling_station,
                   features, printed, search_requests, geometry_requests,
                   yielded>>

\* The head of the geometry response arrives.
GeometryResponseArrives(resp) ==
    /\ pc = "geom_sent"
    /\ response' = Some(resp)
    /\ pc' = "geom_body"
    /\ UNCHANGED <<workbook, row, SETTLEMENT_CODE_CACHE, outstanding,
                   polling_station, features, printed, error,
                   search_requests, geometry_requests, yielded>>

\* The try block gives a geometry or None, the Feature is yielded to run's
\* list comprehension, and on resumption the response block is left.
YieldFeature ==
    /\ pc = "geom_body"
    /\ \E geometry \in ParseGeometry(response[1]) :
           features' = Append(features,
                              Feature(geometry, polling_station[1].properties))
    /\ response' = None
    /\ outstanding' =
           Release(outstanding, <<"geometry", Len(geometry_requests)>>)
    /\ polling_station' = None
    /\ pc' = "rows"
    /\ UNCHANGED <<workbook, row, SETTLEMENT_CODE_CACHE, printed, error,
                   search_requests, geometry_requests, yielded>>

\* The sheets are exhausted: both generators end and run prints the
\* FeatureCollection.
RunPrints ==
    /\ pc = "sheets"
    /\ printed' = Some(FeatureCollection(features))
    /\ pc' = "done"
    /\ UNCHANGED <<workbook, row, SETTLEMENT_CODE_CACHE, response,
                   outstanding, polling_station, features, error,
                   search_requests, geometry_requests, yielded>>

Next ==
    \/ OpenSheet
    \/ EndOfSheet
    \/ \E r \in Rows : SkipRow(r)
    \/ \E r \in Rows : RowStationError(r)
    \/ \E r \in Rows : RowCacheHit(r)
    \/ \E r \in Rows : RowCacheMiss(r)
    \/ \E r \in Rows : RowSettlementError(r)
    \/ SearchRequestFails
    \/ \E resp \in SearchResponses : SearchResponseArrives(resp)
    \/ ResolveSucceeds
    \/ ResolveFails
    \/ GeometryRequest
    \/ GeometryRequestFails
    \/ \E resp \in GeometryResponses : GeometryResponseArrives(resp)
    \/ YieldFeature
    \/ RunPrints

Spec == Init /\ [][Next]_vars

----------------------------------------------------------------------------
(* What the specification says, in the model's terms. *)

\* The anchored match of the specification: the display name is the
\* settlement name, or the settlement name, one space and a non-empty suffix.
AnchoredMatch(name, display) ==
    \/ display = name
    \/ /\ Len(display) >= Len(name) + 2
       /\ SubSeq(display, 1, Len(name)) = name
       /\ display[Len(name) + 1] = " "

\* The candidates of a search response that has a JSON list of well-formed
\* candidates; no candidate otherwise.
WellFormed(resp) ==
    /\ resp.body.kind = "json"
    /\ \A i \in 1..Len(resp.body.candidates) :
           /\ resp.body.candidates[i].telepulesNeve # None
           /\ resp.body.candidates[i].telepulesKod # None

AnchoredIndices(name, resp) ==
    {i \in 1..Len(resp.body.candidates) :
        AnchoredMatch(name, resp.body.candidates[i].telepulesNeve[1])}

Min(S) == CHOOSE x \in S : \A y \in S : x <= y

RECURSIVE Flatten(_)
\* The data rows of the workbook, sheet by sheet, headers dropped.
Flatten(wb) == IF wb = <<>> THEN <<>> ELSE Tail(Head(wb)) \o Flatten(Tail(wb))

RECURSIVE Retained(_)
\* The rows of a sequence whose first cell is not null, in order.
Retained(rows) ==
    IF rows = <<>> THEN <<>>
    ELSE IF Head(rows).first = None THEN Retained(Tail(rows))
    ELSE <<Head(rows)>> \o Retained(Tail(rows))

\* The geometry payloads claim C1 names: malformed JSON, no polygon payload,
\* a polygon payload of zero points.
FailedPayload(resp) ==
    \/ resp.body.kind = "malformed"
    \/ resp.body.kind = "json" /\ ~resp.body.has_polygon
    \/ resp.body.kind = "json" /\ resp.body.has_polygon
       /\ resp.body.paths_json /\ resp.body.paths = <<>>

\* The row read by this step, when the step reads one.
ReadsRow == workbook' # workbook /\ Len(workbook') = Len(workbook)
RowRead == workbook'[Len(workbook')][Len(workbook'[Len(workbook')])]

----------------------------------------------------------------------------
(* The claims. *)

\* C1: when the geometry response of a station is malformed JSON, lacks the
\* polygon payload or carries a polygon payload of zero points, the feature
\* yielded for the station has geometry null, and the features of the other
\* stations are left as they are.
C1_FailedPayloadGivesNull ==
    [][(pc = "geom_body" /\ FailedPayload(response[1]) /\ pc' = "rows")
       => /\ features' = Append(features, features'[Len(features')])
          /\ features'[Len(features')].geometry = None
          /\ features'[Len(features')].properties
                 = polling_station[1].properties]_vars

\* C2: a failure of the geometry request itself never aborts the run: from
\* a sent geometry request the pipeline goes on to the station's feature.
C2_GeometryFailureNeverAborts ==
    [][(pc \in {"geom_sent", "geom_body"}) => (pc' # "aborted")]_vars

\* C3: when the search response holds no candidate that matches the row's
\* settlement name (the anchored match), the run aborts with a
\* ResolutionError, and an aborted run has printed nothing.
C3_NoMatchAborts ==
    /\ [][(/\ pc = "search_body"
           /\ pc' # pc
           /\ WellFormed(response[1])
           /\ AnchoredIndices(row[1].settlement[1], response[1]) = {})
          => /\ pc' = "aborted"
             /\ error'[1].kind = "ResolutionError"
             /\ printed' = None]_vars
    /\ [](pc = "aborted" => printed = None)

\* C4: a settlement name resolved once is never searched for again (every
\* name occurs at most once among the search requests sent), and every
\* record of that settlement carries the same code, the cached one.
C4_CacheHitNoRequest ==
    /\ \A i, j \in 1..Len(search_requests) :
           search_requests[i] = search_requests[j] => i = j
    /\ \A i \in 1..Len(yielded) :
           /\ yielded[i].properties.SETTLEMENT[1]
                  \in DOMAIN SETTLEMENT_CODE_CACHE
           /\ yielded[i].api_params.SETTLEMENT_CODE
                  = SETTLEMENT_CODE_CACHE[yielded[i].properties.SETTLEMENT[1]]

\* C4 witness: two records of one settlement were yielded after one search
\* request, the second by a cache hit.
C4_Witness ==
    /\ Len(yielded) >= 2
    /\ yielded[1].properties.SETTLEMENT = yielded[2].properties.SETTLEMENT
    /\ Len(search_requests) = 1

\* C5: a completed run has printed one feature per retained row (first cell
\* not null, headers dropped), in sheet order and then row order.
C5_OneFeaturePerRetainedRow ==
    pc = "done" =>
        LET fs == printed[1].features
            rows == Retained(Flatten(workbook))
        IN /\ printed[1].type = "FeatureCollection"
           /\ Len(fs) = Len(rows)
           /\ \A i \in 1..Len(rows) : fs[i].properties = Properties(rows[i])

\* C5 witness: a completed run over a sheet of three data rows, the middle
\* one with an empty first cell, printed the two other rows' features, which
\* differ, in their order.
C5_Witness ==
    /\ pc = "done"
    /\ Len(workbook) = 1
    /\ Len(workbook[1]) = 4
    /\ workbook[1][3].first = None
    /\ Len(printed[1].features) = 2
    /\ printed[1].features[1].properties = Properties(workbook[1][2])
    /\ printed[1].features[2].properties = Properties(workbook[1][4])
    /\ workbook[1][2] # workbook[1][4]

\* C6: a row with a null station number or a null settlement is skipped
\* silently: no record, no error, and the run goes on with the next row.
C6_IncompleteRowSkipped ==
    [][(ReadsRow /\ (RowRead.station = None \/ RowRead.settlement = None))
       => /\ error' = None
          /\ yielded' = yielded
          /\ pc' = "rows"]_vars

\* C7: a resolution on a cache miss returns the code of the first candidate,
\* in response order, whose display name matches the settlement name by the
\* anchored match.
C7_FirstAnchoredCandidate ==
    [][(pc = "search_body" /\ pc' = "record" /\ WellFormed(response[1]))
       => LET name == row[1].settlement[1]
              hits == AnchoredIndices(name, response[1])
          IN /\ hits # {}
             /\ polling_station'[1].api_params.SETTLEMENT_CODE
                    = response[1].body.candidates[Min(hits)].telepulesKod[1]]_vars

\* C8: every failed resolution ends in a ResolutionError that carries the
\* settlement name, the cause and the request parameters, and leaves the
\* cache as it was.
C8_FailureIsResolutionError ==
    [][(pc \in {"search_sent", "search_body"} /\ pc' = "aborted")
       => /\ error'[1].kind = "ResolutionError"
          /\ error'[1].settlement = row[1].settlement
          /\ error'[1].params = Some(SearchParams(row[1].settlement[1]))
          /\ SETTLEMENT_CODE_CACHE' = SETTLEMENT_CODE_CACHE]_vars

\* C9: at most one request is outstanding at any time; the geometry
\* requests are those of the yielded records, one each and in record order
\* (the last record's is sent by the next step); and a record's geometry
\* request carries the settlement code resolved for it before.
C9_OneRequestAtATime ==
    /\ Cardinality(outstanding) <= 1
    /\ Len(yielded) = Len(geometry_requests) + (IF pc = "record" THEN 1 ELSE 0)
    /\ \A i \in 1..Len(geometry_requests) :
           /\ geometry_requests[i] = GeometryParams(yielded[i])
           /\ yielded[i].properties.SETTLEMENT[1]
                  \in DOMAIN SETTLEMENT_CODE_CACHE
    /\ \A q \in outstanding :
           /\ q[1] = "search" => pc \in {"search_sent", "search_body"}
           /\ q[1] = "geometry" =>
                  /\ pc \in {"geom_sent", "geom_body"}
                  /\ q[2] = Len(geometry_requests)

\* C9 witness: the geometry request of a second record is outstanding, and
\* a search request was sent and answered before it.
C9_Witness ==
    /\ pc = "geom_sent"
    /\ Len(geometry_requests) = 2
    /\ Len(search_requests) = 2
    /\ outstanding = {<<"geometry", 2>>}

\* C10: an entry of the settlement-code cache is never overwritten with
\* another code and never removed: the cache only grows.
C10_CacheWriteOnce ==
    [][\A n \in DOMAIN SETTLEMENT_CODE_CACHE :
           /\ n \in DOMAIN SETTLEMENT_CODE_CACHE'
           /\ SETTLEMENT_CODE_CACHE'[n] = SETTLEMENT_CODE_CACHE[n]]_vars

\* C10 witness: after the first entry was stored, a second resolution stored
\* another entry and a cache hit followed, and the run completed.
C10_Witness ==
    /\ pc = "done"
    /\ Cardinality(DOMAIN SETTLEMENT_CODE_CACHE) = 2
    /\ Len(search_requests) = 2
    /\ Len(yielded) = 3

====
